---------------------------- MODULE Spec2Model ----------------------------
(***************************************************************************)
(* CareerInn (src/app.py): the free AI chat latch, the subscription flag   *)
(* and the cookie session, as a state machine of concurrent requests.      *)
(*                                                                         *)
(* Durable state is the two tables ai_usage and subscriptions.  The Flask  *)
(* session is a signed cookie: the browser sends its cookie with a         *)
(* request, the handler works on that copy, and the response replaces the  *)
(* browser's cookie when the handler assigned to the session.  A handler   *)
(* is a sequence of steps, one per access to shared state (an SQL query, a *)
(* commit, the AI call, the response), so that requests interleave the way *)
(* a threaded or multi-worker server interleaves them.                     *)
(***************************************************************************)
EXTENDS Integers, Sequences, FiniteSets, TLC

\* Bounds of the model.
MaxHist == 3          \* a message is posted only if ai_history, with what the
                      \* handler would append to it, stays within MaxHist turns
MaxRows == 1          \* rows added to mock_interviews, and to the catalog
MaxServed == 6        \* responses recorded in the history variable served

Accounts == {1, 2}    \* users.id of the registered accounts
Browsers == {"b1", "b2"}  \* browsers, each with its own session cookie
Reqs     == {1, 2}     \* slots for the requests in flight at once

NoUser == 0           \* session.get("user_id") is None
None   == <<>>        \* a query's .first() found no row; a row found is <<value>>

\* Turns of ai_history: {"role": ..., "content": ...}
UserMsg    == [role |-> "user", content |-> "msg"]
LockNotice == [role |-> "assistant", content |-> "free chat ended, subscription required"]
NotConfigured == [role |-> "assistant", content |-> "AI is not configured yet"]
AiReply    == [role |-> "assistant", content |-> "reply"]
AiError    == [role |-> "assistant", content |-> "AI error"]
MockNotConfigured == [role |-> "assistant", content |-> "AI not configured"]

\* The premium pages: /mentorship, /mock-interviews, /mock-interviews/ai,
\* /global-match
PremiumPages == {"mentorship", "mock_interviews", "mock_interview_ai", "global_match"}

\* The skills the dashboard prefills for a subscribed account (ten names in
\* the code, one here).
Prefill == <<"Teamwork">>

VARIABLES
    ai_usage,       \* table ai_usage: user_id -> the ai_used values of its rows
    subscriptions,  \* table subscriptions: user_id -> the active values of its rows
    groq_key,       \* whether GROQ_API_KEY is set in the environment
    cookie,         \* browser -> its session cookie
    req,            \* request slot -> the request in flight
    user_profiles,  \* table user_profiles: user_id -> its rows
    mock_interviews, \* table mock_interviews: the rows the accounts added
    catalog,        \* colleges, courses, jobs, mentors: the rows an admin added
    served          \* history variable: the responses sent so far, in order

vars == <<ai_usage, subscriptions, groq_key, cookie, req,
          user_profiles, mock_interviews, catalog, served>>

\* The tables behind the gated pages.
gated == <<user_profiles, mock_interviews, catalog>>

\* An empty Flask session (no key set).  session["user"], the account's name,
\* is set and cleared together with user_id.
EmptySession == [user_id |-> NoUser, ai_history |-> <<>>, ai_used |-> FALSE,
                 first_time_login |-> None, is_admin |-> FALSE,
                 mock_ai_history |-> <<>>]

IdleReq == [pc |-> "idle", kind |-> "none", b |-> "b1", method |-> "GET",
            reset |-> FALSE, msg |-> "", tab |-> "home", remove_skill |-> "",
            sess |-> EmptySession,
            modified |-> FALSE, usage |-> None, sub |-> None,
            locked |-> FALSE, ai |-> "none", outcome |-> "none"]

Init ==
    /\ ai_usage = [a \in Accounts |-> <<>>]
    /\ subscriptions = [a \in Accounts |-> <<>>]
    /\ groq_key \in BOOLEAN
    /\ cookie = [b \in Browsers |-> EmptySession]
    /\ req = [r \in Reqs |-> IdleReq]
    /\ user_profiles = [a \in Accounts |-> <<>>]
    /\ mock_interviews = <<>>
    /\ catalog = <<>>
    /\ served = <<>>

----------------------------------------------------------------------------
\* The database.

\* db.query(T).filter_by(user_id=user_id).first()
First(tbl, user_id) == IF tbl[user_id] = <<>> THEN None ELSE <<Head(tbl[user_id])>>

\* unique=True on user_id: an INSERT of a second row for user_id fails.
UniqueViolation(tbl, user_id) == tbl[user_id] # <<>>

\* db.add(T(user_id=user_id, <column>=val)); the row exists after the commit.
InsertMut(tbl, user_id, val) == tbl
Insert(tbl, user_id, val) == [tbl EXCEPT ![user_id] = Append(@, val)]

\* usage.ai_used = 1 / sub.active = True on the row a query returned;
\* the commit writes that row.
UpdateMut(tbl, user_id, val) == [tbl EXCEPT ![user_id] = Append(@, val)]
Update(tbl, user_id, val) ==
    [tbl EXCEPT ![user_id] = IF @ = <<>> THEN @ ELSE <<val>> \o Tail(@)]

\* user_is_subscribed(user_id)
user_is_subscribed(user_id) ==
    /\ user_id # NoUser
    /\ First(subscriptions, user_id) # None
    /\ First(subscriptions, user_id)[1]

----------------------------------------------------------------------------
\* Requests.

\* Slot r takes the next request: it is idle, and so is no slot before it
\* (slots only name the requests in flight).
Free(r) ==
    /\ req[r].pc = "idle"
    /\ \A p \in Reqs : req[p].pc = "idle" => r <= p

\* The browser b sends a request: the handler gets the cookie's session.
Start(r, b, kind, method, reset, msg, pc) ==
    [IdleReq EXCEPT !.pc = pc, !.kind = kind, !.b = b, !.method = method,
                    !.reset = reset, !.msg = msg, !.sess = cookie[b]]

\* The handler returns: the response carries the session when it was assigned to.
Finish(q, outcome) == [q EXCEPT !.pc = "respond", !.outcome = outcome]

\* The browser receives the response and replaces its cookie.
Respond(r) ==
    /\ req[r].pc = "respond"
    /\ cookie' = IF req[r].modified
                 THEN [cookie EXCEPT ![req[r].b] = req[r].sess]
                 ELSE cookie
    /\ req' = [req EXCEPT ![r] = IdleReq]
    /\ UNCHANGED <<ai_usage, subscriptions, groq_key, gated, served>>

\* The response, recorded in served: the request, its account, its outcome,
\* what the AI collaborator did, the ai_history of its session, the account's
\* ai_usage rows and its subscription.
Entry(q) ==
    [kind |-> q.kind,
     method |-> q.method,
     message |-> (q.method = "POST" /\ q.msg # ""),
     user_id |-> q.sess.user_id,
     ai |-> q.ai,
     outcome |-> q.outcome,
     ai_history |-> q.sess.ai_history,
     ai_usage |-> IF q.sess.user_id = NoUser THEN <<>> ELSE ai_usage[q.sess.user_id],
     active |-> user_is_subscribed(q.sess.user_id)]

RespondServed(r) ==
    /\ req[r].pc = "respond"
    /\ Len(served) < MaxServed
    /\ cookie' = IF req[r].modified
                 THEN [cookie EXCEPT ![req[r].b] = req[r].sess]
                 ELSE cookie
    /\ req' = [req EXCEPT ![r] = IdleReq]
    /\ served' = Append(served, Entry(req[r]))
    /\ UNCHANGED <<ai_usage, subscriptions, groq_key, gated>>

----------------------------------------------------------------------------
\* /chatbot

\* line 1013: locked = bool(usage and usage.ai_used == 1 and not user_is_subscribed(user_id))
LockedMut(usage, subscribed) == FALSE
Locked(usage, subscribed) == usage # None /\ usage[1] = 1 /\ ~subscribed

\* The turns a chat request sent now appends when no other request interferes.
Growth(user_id, method, msg) ==
    IF user_id = NoUser \/ method = "GET" THEN 0
    ELSE IF Locked(First(ai_usage, user_id), user_is_subscribed(user_id)) THEN 1
    ELSE IF msg # "" THEN 2 ELSE 0

\* lines 1008-1010: the request arrives; without user_id, redirect to /login.
ChatStart(r, b, method, reset, msg) ==
    /\ Free(r)
    /\ method = "GET" => msg = ""
    /\ method = "POST" => ~reset
    /\ req' = [req EXCEPT ![r] =
         IF cookie[b].user_id = NoUser
         THEN Finish(Start(r, b, "chatbot", method, reset, msg, "respond"), "redirect_login")
         ELSE Start(r, b, "chatbot", method, reset, msg, "read_usage")]
    /\ UNCHANGED <<ai_usage, subscriptions, groq_key, cookie, gated, served>>

\* The request is sent only if ai_history stays within MaxHist turns.
ChatStartBounded(r, b, method, reset, msg) ==
    /\ Len(cookie[b].ai_history) + Growth(cookie[b].user_id, method, msg) <= MaxHist
    /\ ChatStart(r, b, method, reset, msg)

\* line 1012: usage = db.query(AiUsage).filter_by(user_id=user_id).first()
\* line 1013, left operands: usage and usage.ai_used == 1; the subscription
\* is read only when both hold.
ChatReadUsage(r) ==
    /\ req[r].kind = "chatbot" /\ req[r].pc = "read_usage"
    /\ LET usage == First(ai_usage, req[r].sess.user_id) IN
       req' = [req EXCEPT ![r].usage = usage,
                          ![r].pc = IF usage # None /\ usage[1] = 1
                                    THEN "read_sub" ELSE "body"]
    /\ UNCHANGED <<ai_usage, subscriptions, groq_key, cookie, gated, served>>

ChatReadSub(r) ==
    /\ req[r].kind = "chatbot" /\ req[r].pc = "read_sub"
    /\ LET subscribed == user_is_subscribed(req[r].sess.user_id) IN
       req' = [req EXCEPT ![r].sub = subscribed,
                          ![r].locked = Locked(req[r].usage, subscribed),
                          ![r].pc = "body"]
    /\ UNCHANGED <<ai_usage, subscriptions, groq_key, cookie, gated, served>>

\* lines 1015-1016: session["ai_history"] = []
ResetSessionMut(sess) == [sess EXCEPT !.ai_history = <<>>, !.ai_used = FALSE]
ResetSession(sess) == [sess EXCEPT !.ai_history = <<>>]

\* lines 1025-1026: if request.method == "POST": if locked:
DeniedMut(q) == q.method = "POST" /\ (q.locked \/ q.sess.ai_used)
Denied(q) == q.method = "POST" /\ q.locked

\* lines 1027-1028: the lock notice is appended to the history
DenySessionMut(sess) ==
    [sess EXCEPT !.ai_history = @ \o <<UserMsg, LockNotice>>]
DenySession(sess) ==
    [sess EXCEPT !.ai_history = Append(@, LockNotice)]

\* line 1035: the user's turn is appended to the history
AskedMut(history) == <<UserMsg>>
Asked(history) == Append(history, UserMsg)

\* lines 1015-1036 and 1050-1052: reset, the lock notice, the user's turn, and
\* either the start of the AI call or the page.
ChatBody(r) ==
    /\ req[r].kind = "chatbot" /\ req[r].pc = "body"
    /\ LET q == req[r]
           history == q.sess.ai_history
       IN req' = [req EXCEPT ![r] =
            IF q.reset
            THEN Finish([q EXCEPT !.sess = ResetSession(q.sess), !.modified = TRUE],
                        "redirect_chatbot")
            ELSE IF Denied(q)
            THEN Finish([q EXCEPT !.sess = DenySession(q.sess),
                                  !.modified = TRUE], "denied")
            ELSE IF q.method = "POST" /\ q.msg # ""
            THEN IF groq_key
                 THEN [q EXCEPT !.sess.ai_history = Asked(history),
                                !.modified = TRUE, !.pc = "ai_call"]
                 ELSE Finish([q EXCEPT !.sess.ai_history =
                                          Append(Asked(history), NotConfigured),
                                       !.modified = TRUE,
                                       !.ai = "not_configured"], "allowed")
            ELSE Finish([q EXCEPT !.modified = TRUE], "page")]
    /\ UNCHANGED <<ai_usage, subscriptions, groq_key, cookie, gated, served>>

\* lines 1040-1045: what the AI collaborator did, by the reply of the handler.
Collaborator(reply) == IF reply = AiError THEN "raised" ELSE "replied"

\* lines 1040-1048: the AI collaborator answers or raises; the reply is appended.
ChatAIReturnMut(r, reply) ==
    /\ req[r].kind = "chatbot" /\ req[r].pc = "ai_call"
    /\ req' = [req EXCEPT ![r] =
         Finish([@ EXCEPT !.sess.ai_history = Append(@, reply),
                          !.ai = Collaborator(reply)], "allowed")]
    /\ ai_usage' = [ai_usage EXCEPT ![req[r].sess.user_id] = <<1>>]
    /\ UNCHANGED <<subscriptions, groq_key, cookie, gated, served>>

ChatAIRaisesMut(r, reply) ==
    /\ req[r].kind = "chatbot" /\ req[r].pc = "ai_call"
    /\ req' = [req EXCEPT ![r] =
         IF reply = AiError
         THEN Finish([@ EXCEPT !.sess.ai_history = SubSeq(@, 1, Len(@) - 1),
                               !.ai = Collaborator(reply)], "error")
         ELSE Finish([@ EXCEPT !.sess.ai_history = Append(@, reply),
                               !.ai = Collaborator(reply)], "allowed")]
    /\ UNCHANGED <<ai_usage, subscriptions, groq_key, cookie, gated, served>>

ChatAIReturn(r, reply) ==
    /\ req[r].kind = "chatbot" /\ req[r].pc = "ai_call"
    /\ req' = [req EXCEPT ![r] =
         Finish([@ EXCEPT !.sess.ai_history = Append(@, reply),
                          !.ai = Collaborator(reply)], "allowed")]
    /\ UNCHANGED <<ai_usage, subscriptions, groq_key, cookie, gated, served>>

----------------------------------------------------------------------------
\* /chatbot/end

\* lines 1058-1060: without user_id, redirect to /login.
EndStart(r, b) ==
    /\ Free(r)
    /\ req' = [req EXCEPT ![r] =
         IF cookie[b].user_id = NoUser
         THEN Finish(Start(r, b, "end_chatbot", "POST", FALSE, "", "respond"), "redirect_login")
         ELSE Start(r, b, "end_chatbot", "POST", FALSE, "", "read_usage")]
    /\ UNCHANGED <<ai_usage, subscriptions, groq_key, cookie, gated, served>>

\* line 1063: usage = db.query(AiUsage).filter_by(user_id=user_id).first()
EndReadUsage(r) ==
    /\ req[r].kind = "end_chatbot" /\ req[r].pc = "read_usage"
    /\ req' = [req EXCEPT ![r].usage = First(ai_usage, req[r].sess.user_id),
                          ![r].pc = "commit"]
    /\ UNCHANGED <<ai_usage, subscriptions, groq_key, cookie, gated, served>>

\* lines 1064-1068: the value the handler writes to the row.
EndValueMut(usage) == IF usage = None THEN 1 ELSE 1 - usage[1]
EndValue(usage) == 1

\* line 1064: if usage is None (insert), else update the row found.
EndInsertsMut(usage) == TRUE
EndInserts(usage) == usage = None

\* lines 1072-1073: session["ai_history"] = []; session["ai_used"] = True
EndSessionMut(sess) == [sess EXCEPT !.ai_used = TRUE]
EndSession(sess) == [sess EXCEPT !.ai_history = <<>>, !.ai_used = TRUE]

\* lines 1064-1074: insert or update, commit; the commit of an insert raises
\* IntegrityError when a row for user_id exists by then, and the exception
\* leaves the handler before the session is touched (HTTP 500).
EndCommit(r) ==
    /\ req[r].kind = "end_chatbot" /\ req[r].pc = "commit"
    /\ LET q == req[r]
           user_id == q.sess.user_id
       IN IF EndInserts(q.usage) /\ UniqueViolation(ai_usage, user_id)
          THEN /\ req' = [req EXCEPT ![r] = Finish(q, "error")]
               /\ UNCHANGED ai_usage
          ELSE /\ ai_usage' = IF EndInserts(q.usage)
                              THEN Insert(ai_usage, user_id, EndValue(q.usage))
                              ELSE Update(ai_usage, user_id, EndValue(q.usage))
               /\ req' = [req EXCEPT ![r] =
                    Finish([q EXCEPT !.sess = EndSession(q.sess),
                                     !.modified = TRUE], "redirect_chatbot")]
    /\ UNCHANGED <<subscriptions, groq_key, cookie, gated, served>>

----------------------------------------------------------------------------
\* /subscribe

\* lines 1172-1174: without user_id, redirect to /login.
SubscribeStart(r, b, method) ==
    /\ Free(r)
    /\ req' = [req EXCEPT ![r] =
         IF cookie[b].user_id = NoUser
         THEN Finish(Start(r, b, "subscribe", method, FALSE, "", "respond"), "redirect_login")
         ELSE Start(r, b, "subscribe", method, FALSE, "", "read_sub")]
    /\ UNCHANGED <<ai_usage, subscriptions, groq_key, cookie, gated, served>>

\* lines 1176 and 1186-1192: the row is read; a GET renders the form.
SubscribeReadSub(r) ==
    /\ req[r].kind = "subscribe" /\ req[r].pc = "read_sub"
    /\ LET sub == First(subscriptions, req[r].sess.user_id) IN
       req' = [req EXCEPT ![r] =
         IF req[r].method = "POST"
         THEN [@ EXCEPT !.sub = sub, !.pc = "commit"]
         ELSE Finish([@ EXCEPT !.sub = sub], "page")]
    /\ UNCHANGED <<ai_usage, subscriptions, groq_key, cookie, gated, served>>

\* lines 1178-1185: insert or update, commit (IntegrityError as in end_chatbot).
SubscribeCommitMut(r) ==
    /\ req[r].kind = "subscribe" /\ req[r].pc = "commit"
    /\ LET q == req[r]
           user_id == q.sess.user_id
       IN /\ subscriptions' = IF q.sub = None
                               THEN Insert(subscriptions, user_id, TRUE)
                               ELSE Update(subscriptions, user_id, TRUE)
          /\ ai_usage' = [ai_usage EXCEPT ![user_id] = <<>>]
          /\ req' = [req EXCEPT ![r] = Finish(q, "redirect_dashboard")]
    /\ UNCHANGED <<groq_key, cookie, gated, served>>

\* lines 1179 and 1182: active=True for the new row, sub.active = True for
\* the row found
ActiveValueMut(sub) == IF sub = None THEN TRUE ELSE ~sub[1]
ActiveValue(sub) == TRUE

SubscribeCommit(r) ==
    /\ req[r].kind = "subscribe" /\ req[r].pc = "commit"
    /\ LET q == req[r]
           user_id == q.sess.user_id
       IN IF q.sub = None /\ UniqueViolation(subscriptions, user_id)
          THEN /\ req' = [req EXCEPT ![r] = Finish(q, "error")]
               /\ UNCHANGED subscriptions
          ELSE /\ subscriptions' = IF q.sub = None
                                   THEN Insert(subscriptions, user_id, ActiveValue(q.sub))
                                   ELSE Update(subscriptions, user_id, ActiveValue(q.sub))
               /\ req' = [req EXCEPT ![r] = Finish(q, "redirect_dashboard")]
    /\ UNCHANGED <<ai_usage, groq_key, cookie, gated, served>>

----------------------------------------------------------------------------
\* /login, /logout, /

\* lines 1155-1159: the session of an authenticated login.
LoginSession(sess, a) ==
    [sess EXCEPT !.user_id = a, !.ai_history = <<>>,
                 !.first_time_login = IF @ = None THEN <<TRUE>> ELSE @]

\* lines 1142-1163: a POST with the credentials of account a (NoUser: with
\* credentials of no account, or a GET) sets user, user_id, an empty
\* ai_history and first_time_login.
Login(r, b, a) ==
    /\ Free(r)
    /\ req' = [req EXCEPT ![r] =
         IF a # NoUser
         THEN Finish([Start(r, b, "login", "POST", FALSE, "", "respond")
                        EXCEPT !.sess = LoginSession(cookie[b], a),
                               !.modified = TRUE], "redirect_dashboard")
         ELSE Finish(Start(r, b, "login", "POST", FALSE, "", "respond"), "page")]
    /\ UNCHANGED <<ai_usage, subscriptions, groq_key, cookie, gated, served>>

\* lines 1165-1167: session.clear()
Logout(r, b) ==
    /\ Free(r)
    /\ req' = [req EXCEPT ![r] =
         Finish([Start(r, b, "logout", "GET", FALSE, "", "respond")
                   EXCEPT !.sess = EmptySession, !.modified = TRUE], "redirect_home")]
    /\ UNCHANGED <<ai_usage, subscriptions, groq_key, cookie, gated, served>>

\* lines 532-535: the home page, for a visitor or a logged-in account.
HomeStart(r, b) ==
    /\ Free(r)
    /\ req' = [req EXCEPT ![r] =
         IF cookie[b].user_id = NoUser
         THEN Finish(Start(r, b, "home", "GET", FALSE, "", "respond"), "page")
         ELSE Start(r, b, "home", "GET", FALSE, "", "read_usage")]
    /\ UNCHANGED <<ai_usage, subscriptions, groq_key, cookie, gated, served>>

\* line 540: the home page's test for 'free chat already used'.
HomeUsed(usage) == usage # None /\ usage[1] >= 1

\* lines 537-542: the row is read; session["ai_used"] = True when it is used.
HomeReadUsage(r) ==
    /\ req[r].kind = "home" /\ req[r].pc = "read_usage"
    /\ LET usage == First(ai_usage, req[r].sess.user_id) IN
       req' = [req EXCEPT ![r] =
         IF HomeUsed(usage)
         THEN Finish([@ EXCEPT !.usage = usage, !.sess.ai_used = TRUE,
                               !.modified = TRUE], "page_used")
         ELSE Finish([@ EXCEPT !.usage = usage], "page")]
    /\ UNCHANGED <<ai_usage, subscriptions, groq_key, cookie, gated, served>>

----------------------------------------------------------------------------
\* The premium pages.

\* lines 827, 847, 887, 948: the request arrives; user_id = session.get("user_id")
\* may be None.  /mock-interviews and /mock-interviews/ai take a POST, with a
\* title or a message (here a session sends its mock interview one message).
PremiumStart(r, b, page, method, msg) ==
    /\ Free(r)
    /\ page \in PremiumPages
    /\ method = "POST" => page \in {"mock_interviews", "mock_interview_ai"}
    /\ method = "GET" => msg = ""
    /\ (page = "mock_interviews" /\ msg # "") => Len(mock_interviews) < MaxRows
    /\ (page = "mock_interview_ai" /\ msg # "") => cookie[b].mock_ai_history = <<>>
    /\ req' = [req EXCEPT ![r] = Start(r, b, page, method, FALSE, msg, "check")]
    /\ UNCHANGED <<ai_usage, subscriptions, groq_key, cookie, gated, served>>

\* lines 828, 848, 888, 949: if not user_is_subscribed(user_id), the page that
\* asks to subscribe.
PremiumGrantedMut(r) == user_is_subscribed(req[r].sess.user_id) \/ req[r].sess.is_admin
PremiumGranted(r) == user_is_subscribed(req[r].sess.user_id)

PremiumCheck(r) ==
    /\ req[r].kind \in PremiumPages /\ req[r].pc = "check"
    /\ req' = [req EXCEPT ![r] =
         IF PremiumGranted(r)
         THEN [@ EXCEPT !.sub = TRUE, !.pc = "body"]
         ELSE Finish([@ EXCEPT !.sub = FALSE], "needs_subscription")]
    /\ UNCHANGED <<ai_usage, subscriptions, groq_key, cookie, gated, served>>

\* lines 835-841, 853-883, 890-914, 956-965: the page of a subscribed account.
\* A POST to /mock-interviews with a title adds a row; a POST to
\* /mock-interviews/ai with a message appends the message and the reply (of
\* the AI collaborator, or its error, or 'not configured') to mock_ai_history.
PremiumBody(r, reply) ==
    /\ req[r].kind \in PremiumPages /\ req[r].pc = "body"
    /\ LET q == req[r]
           posted == q.method = "POST" /\ q.msg # ""
       IN /\ IF q.kind = "mock_interview_ai" /\ posted
             THEN IF groq_key THEN reply \in {AiReply, AiError}
                              ELSE reply = MockNotConfigured
             ELSE reply = AiReply
          /\ mock_interviews' = IF q.kind = "mock_interviews" /\ posted
                                THEN Append(mock_interviews, q.sess.user_id)
                                ELSE mock_interviews
          /\ req' = [req EXCEPT ![r] =
               IF q.kind = "mock_interviews" /\ posted
               THEN Finish(q, "redirect_mock_interviews")
               ELSE IF q.kind = "mock_interview_ai" /\ posted
               THEN Finish([q EXCEPT !.sess.mock_ai_history = @ \o <<UserMsg, reply>>,
                                     !.modified = TRUE], "content")
               ELSE Finish(q, "content")]
    /\ UNCHANGED <<ai_usage, subscriptions, groq_key, cookie, user_profiles,
                   catalog, served>>

----------------------------------------------------------------------------
\* /dashboard

\* A row of user_profiles: skills_text as the list of its skills (target_roles
\* and self_rating are saved with it), resume_link (notes are saved with it).
NewProfile == [skills_text |-> <<>>, resume_link |-> ""]

\* lines 1221 and 1226: the skills_text of the form
FormSkills(msg) == IF msg = "" THEN <<>> ELSE <<msg>>

\* lines 1232-1238: skills_add appends a skill that is new to the list
AddSkill(skills, new_skill) ==
    IF new_skill = "" \/ \E i \in 1..Len(skills) : skills[i] = new_skill
    THEN skills ELSE Append(skills, new_skill)

\* lines 1251-1253: remove_skill drops the skill from the list
RemoveSkill(skills, remove_skill) ==
    SelectSeq(skills, LAMBDA sk : sk # remove_skill)

\* lines 1197-1205: without user_id, redirect to /login; tab comes from the
\* form or the query, remove_skill from the query.
DashStart(r, b, method, tab, msg, remove_skill) ==
    /\ Free(r)
    /\ tab \in {"home", "skills", "skills_add", "resume"}
    /\ method = "GET" => msg = ""
    /\ (method = "POST" /\ tab # "home") => remove_skill = ""
    /\ (method = "POST" /\ tab = "home") => msg = ""
    /\ req' = [req EXCEPT ![r] =
         IF cookie[b].user_id = NoUser
         THEN Finish([Start(r, b, "dashboard", method, FALSE, msg, "respond")
                        EXCEPT !.tab = tab, !.remove_skill = remove_skill],
                     "redirect_login")
         ELSE [Start(r, b, "dashboard", method, FALSE, msg, "read_profile")
                 EXCEPT !.tab = tab, !.remove_skill = remove_skill]]
    /\ UNCHANGED <<ai_usage, subscriptions, groq_key, cookie, gated, served>>

\* lines 1208-1212: the profile row is read, and created when there is none.
\* lines 1215-1217, 1250, 1273: the pages that read the subscription next.
DashReadProfile(r) ==
    /\ req[r].kind = "dashboard" /\ req[r].pc = "read_profile"
    /\ LET user_id == req[r].sess.user_id IN
       /\ user_profiles' = IF First(user_profiles, user_id) = None
                           THEN Insert(user_profiles, user_id, NewProfile)
                           ELSE user_profiles
       /\ req' = [req EXCEPT ![r].pc =
            IF req[r].method = "POST" /\ req[r].tab = "resume"
            THEN "body" ELSE "check"]
    /\ UNCHANGED <<ai_usage, subscriptions, groq_key, cookie, mock_interviews,
                   catalog, served>>

\* lines 1217, 1250, 1273, 1328: user_is_subscribed(user_id)
DashCheck(r) ==
    /\ req[r].kind = "dashboard" /\ req[r].pc = "check"
    /\ req' = [req EXCEPT ![r].sub = user_is_subscribed(req[r].sess.user_id),
                          ![r].pc = "body"]
    /\ UNCHANGED <<ai_usage, subscriptions, groq_key, cookie, gated, served>>

\* lines 1266-1268: the greeting of the first visit
Greeted(sess) ==
    IF sess.first_time_login = <<TRUE>>
    THEN [sess EXCEPT !.first_time_login = <<FALSE>>] ELSE sess

\* lines 1217 and 1250: the skills are saved, and a skill removed, when
\* user_is_subscribed(user_id) held
MaySaveSkillsMut(q) == TRUE
MaySaveSkills(q) == q.sub

\* lines 1215-1256: the saves of the skills and resume tabs and remove_skill;
\* lines 1258-1283: the page, its greeting, and the prefilled skills of a
\* subscribed account.  The skills are saved for a subscribed account only.
DashBody(r) ==
    /\ req[r].kind = "dashboard" /\ req[r].pc = "body"
    /\ LET q == req[r]
           user_id == q.sess.user_id
           profile == Head(user_profiles[user_id])
           save(row) == Update(user_profiles, user_id, row)
       IN IF q.method = "POST" /\ q.tab \in {"skills", "skills_add"}
          THEN /\ user_profiles' =
                    IF ~MaySaveSkills(q) THEN user_profiles
                    ELSE IF q.tab = "skills"
                    THEN save([profile EXCEPT !.skills_text = FormSkills(q.msg)])
                    ELSE save([profile EXCEPT !.skills_text = AddSkill(@, q.msg)])
               /\ req' = [req EXCEPT ![r] = Finish(q, "redirect_skills")]
          ELSE IF q.method = "POST" /\ q.tab = "resume"
          THEN /\ user_profiles' = save([profile EXCEPT !.resume_link = q.msg])
               /\ req' = [req EXCEPT ![r] = Finish(q, "redirect_resume")]
          ELSE IF q.remove_skill # ""
          THEN /\ user_profiles' =
                    IF ~MaySaveSkills(q) THEN user_profiles
                    ELSE save([profile EXCEPT
                                 !.skills_text = RemoveSkill(@, q.remove_skill)])
               /\ req' = [req EXCEPT ![r] = Finish(q, "redirect_skills")]
          ELSE /\ user_profiles' =
                    IF profile.skills_text = <<>> /\ q.sub
                    THEN save([profile EXCEPT !.skills_text = Prefill])
                    ELSE user_profiles
               /\ req' = [req EXCEPT ![r] =
                    Finish([q EXCEPT !.sess = Greeted(q.sess),
                                     !.modified = (Greeted(q.sess) # q.sess)],
                           "page")]
    /\ UNCHANGED <<ai_usage, subscriptions, groq_key, cookie, mock_interviews,
                   catalog, served>>

----------------------------------------------------------------------------
\* /admin

\* lines 355-356
is_admin(sess) == sess.is_admin = TRUE

\* lines 360-376: an admin is sent on to /admin; a POST with the admin's
\* credentials (ok) sets session["is_admin"].
AdminLogin(r, b, method, ok) ==
    /\ Free(r)
    /\ method = "GET" => ~ok
    /\ LET q == Start(r, b, "admin_login", method, FALSE, "", "respond") IN
       req' = [req EXCEPT ![r] =
         IF is_admin(q.sess) THEN Finish(q, "redirect_admin")
         ELSE IF method = "POST" /\ ok
         THEN Finish([q EXCEPT !.sess.is_admin = TRUE, !.modified = TRUE],
                     "redirect_admin")
         ELSE Finish(q, "page")]
    /\ UNCHANGED <<ai_usage, subscriptions, groq_key, cookie, gated, served>>

\* lines 392-394: session.pop("is_admin", None)
AdminLogout(r, b) ==
    /\ Free(r)
    /\ req' = [req EXCEPT ![r] =
         Finish([Start(r, b, "admin_logout", "GET", FALSE, "", "respond")
                   EXCEPT !.sess.is_admin = FALSE, !.modified = TRUE],
                "redirect_home")]
    /\ UNCHANGED <<ai_usage, subscriptions, groq_key, cookie, gated, served>>

\* lines 397-399: the admin panel, or the redirect to /admin/login
AdminGranted(sess) == is_admin(sess)

AdminPanel(r, b) ==
    /\ Free(r)
    /\ LET q == Start(r, b, "admin_panel", "GET", FALSE, "", "respond") IN
       req' = [req EXCEPT ![r] =
         IF AdminGranted(q.sess) THEN Finish(q, "admin_panel")
         ELSE Finish(q, "redirect_admin_login")]
    /\ UNCHANGED <<ai_usage, subscriptions, groq_key, cookie, gated, served>>

\* lines 454-474: the form, or the row a POST adds; a form that does not
\* convert (not valid) raises, and the handler rolls back.
AdminAdd(r, b, method, valid) ==
    /\ Free(r)
    /\ method = "GET" => valid
    /\ LET q == Start(r, b, "admin_add", method, FALSE, "", "respond")
           adds == AdminGranted(q.sess) /\ method = "POST" /\ valid
       IN /\ adds => Len(catalog) < MaxRows
          /\ catalog' = IF adds THEN Append(catalog, "row") ELSE catalog
          /\ req' = [req EXCEPT ![r] =
               IF ~AdminGranted(q.sess) THEN Finish(q, "redirect_admin_login")
               ELSE IF method = "GET" THEN Finish(q, "page")
               ELSE IF valid THEN Finish(q, "redirect_admin")
               ELSE Finish(q, "error_page")]
    /\ UNCHANGED <<ai_usage, subscriptions, groq_key, cookie, user_profiles,
                   mock_interviews, served>>

----------------------------------------------------------------------------
\* Failures of the store.

\* A query of a handler raises (the database is not reachable): the read of
\* ai_usage at line 1012, the read of subscriptions inside user_is_subscribed
\* (line 350) for /chatbot (line 1013) and for the premium pages.
ReadFails(r) ==
    /\ \/ req[r].kind = "chatbot" /\ req[r].pc \in {"read_usage", "read_sub"}
       \/ req[r].kind \in PremiumPages /\ req[r].pc = "check"
    /\ req' = [req EXCEPT ![r].pc = "raised"]
    /\ UNCHANGED <<ai_usage, subscriptions, groq_key, cookie, gated, served>>

\* line 1069: db.commit() of end_chatbot raises; nothing is written.
CommitFails(r) ==
    /\ req[r].kind = "end_chatbot" /\ req[r].pc = "commit"
    /\ req' = [req EXCEPT ![r].pc = "raised"]
    /\ UNCHANGED <<ai_usage, subscriptions, groq_key, cookie, gated, served>>

\* lines 1062-1071: try/finally without except; the exception of the commit
\* leaves end_chatbot before lines 1072-1073.
EndRaisedMut(q) ==
    Finish([q EXCEPT !.sess = EndSession(q.sess), !.modified = TRUE], "redirect_chatbot")
EndRaised(q) == Finish(q, "error")

\* No handler catches the exception (chatbot, user_is_subscribed and the
\* premium pages have no try): it leaves the handler, and the request is
\* answered with HTTP 500.
RaisedMut(r) ==
    /\ req[r].pc = "raised"
    /\ req' = [req EXCEPT ![r] =
         IF @.kind = "chatbot" THEN [@ EXCEPT !.pc = "body"] ELSE Finish(@, "error")]
    /\ UNCHANGED <<ai_usage, subscriptions, groq_key, cookie, gated, served>>

Raised(r) ==
    /\ req[r].pc = "raised"
    /\ req' = [req EXCEPT ![r] =
         IF @.kind = "end_chatbot" THEN EndRaised(@) ELSE Finish(@, "error")]
    /\ UNCHANGED <<ai_usage, subscriptions, groq_key, cookie, gated, served>>

----------------------------------------------------------------------------
\* Requests one after the other: slot 1 takes every request, and the next is
\* sent after the response to the one before.
Next ==
    \/ \E b \in Browsers :
         \/ \E method \in {"GET", "POST"}, reset \in BOOLEAN, msg \in {"", "msg"} :
              ChatStartBounded(1, b, method, reset, msg)
         \/ EndStart(1, b)
         \/ \E method \in {"GET", "POST"} : SubscribeStart(1, b, method)
         \/ \E a \in Accounts \cup {NoUser} : Login(1, b, a)
         \/ Logout(1, b)
         \/ HomeStart(1, b)
    \/ ChatReadUsage(1)
    \/ ChatReadSub(1)
    \/ ChatBody(1)
    \/ \E reply \in {AiReply, AiError} : ChatAIReturn(1, reply)
    \/ EndReadUsage(1)
    \/ EndCommit(1)
    \/ SubscribeReadSub(1)
    \/ SubscribeCommit(1)
    \/ HomeReadUsage(1)
    \/ Respond(1)

Spec == Init /\ [][Next]_vars

\* Concurrent requests: logins, chat messages, end-chat and subscribe requests
\* of account 1 in one browser (two tabs, a double click), in flight together
\* and interleaved step by step.
ConcNext ==
    \/ \E r \in Reqs :
         \/ ChatStartBounded(r, "b1", "POST", FALSE, "msg")
         \/ EndStart(r, "b1")
         \/ SubscribeStart(r, "b1", "POST")
         \/ Login(r, "b1", 1)
    \/ \E r \in Reqs :
         \/ ChatReadUsage(r)
         \/ ChatReadSub(r)
         \/ ChatBody(r)
         \/ \E reply \in {AiReply, AiError} : ChatAIReturn(r, reply)
         \/ EndReadUsage(r)
         \/ EndCommit(r)
         \/ SubscribeReadSub(r)
         \/ SubscribeCommit(r)
         \/ Respond(r)

ConcSpec == Init /\ [][ConcNext]_vars

\* The whole site, for account 1 in one browser: the requests of Next, and
\* those to the dashboard, the premium pages and the admin pages, one after
\* the other.  A chat message is sent to an empty transcript.
SiteNext ==
    \/ \E method \in {"GET", "POST"}, reset \in BOOLEAN, msg \in {"", "msg"} :
         /\ method = "POST" => cookie["b1"].ai_history = <<>>
         /\ ChatStartBounded(1, "b1", method, reset, msg)
    \/ EndStart(1, "b1")
    \/ \E method \in {"GET", "POST"} : SubscribeStart(1, "b1", method)
    \/ Login(1, "b1", 1)
    \/ Logout(1, "b1")
    \/ HomeStart(1, "b1")
    \/ \E page \in PremiumPages, method \in {"GET", "POST"}, msg \in {"", "msg"} :
         PremiumStart(1, "b1", page, method, msg)
    \/ \E method \in {"GET", "POST"}, tab \in {"home", "skills", "skills_add", "resume"},
          msg \in {"", "msg"}, remove_skill \in {"", "msg"} :
         DashStart(1, "b1", method, tab, msg, remove_skill)
    \/ \E method \in {"GET", "POST"}, ok \in BOOLEAN : AdminLogin(1, "b1", method, ok)
    \/ AdminLogout(1, "b1")
    \/ AdminPanel(1, "b1")
    \/ \E method \in {"GET", "POST"}, valid \in BOOLEAN : AdminAdd(1, "b1", method, valid)
    \/ ChatReadUsage(1)
    \/ ChatReadSub(1)
    \/ ChatBody(1)
    \/ ChatAIReturn(1, AiReply)
    \/ EndReadUsage(1)
    \/ EndCommit(1)
    \/ SubscribeReadSub(1)
    \/ SubscribeCommit(1)
    \/ HomeReadUsage(1)
    \/ PremiumCheck(1)
    \/ \E reply \in {AiReply, AiError, MockNotConfigured} : PremiumBody(1, reply)
    \/ DashReadProfile(1)
    \/ DashCheck(1)
    \/ DashBody(1)
    \/ Respond(1)

SiteSpec == Init /\ [][SiteNext]_vars

\* A chat session of account 1, request by request, with its responses
\* recorded: logins, chat messages and end-chat requests, one after the other.
ChatLogNext ==
    \/ Login(1, "b1", 1)
    \/ ChatStart(1, "b1", "POST", FALSE, "msg")
    \/ EndStart(1, "b1")
    \/ ChatReadUsage(1)
    \/ ChatReadSub(1)
    \/ ChatBody(1)
    \/ \E reply \in {AiReply, AiError} : ChatAIReturn(1, reply)
    \/ EndReadUsage(1)
    \/ EndCommit(1)
    \/ RespondServed(1)

ChatLogSpec == Init /\ [][ChatLogNext]_vars

\* The premium pages of account 1, request by request, with the responses
\* recorded: logins, subscribe requests, and requests to /mentorship and to
\* /mock-interviews.
GateLogNext ==
    \/ Login(1, "b1", 1)
    \/ SubscribeStart(1, "b1", "POST")
    \/ \E page \in {"mentorship", "mock_interviews"} :
         PremiumStart(1, "b1", page, "GET", "")
    \/ SubscribeReadSub(1)
    \/ SubscribeCommit(1)
    \/ PremiumCheck(1)
    \/ PremiumBody(1, AiReply)
    \/ RespondServed(1)

GateLogSpec == Init /\ [][GateLogNext]_vars

\* Requests of account 1 against a store that may fail: chat messages,
\* end-chat and subscribe requests and premium pages, one after the other;
\* a read of /chatbot or of a premium page, and the commit of /chatbot/end,
\* may raise.
FaultNext ==
    \/ Login(1, "b1", 1)
    \/ ChatStartBounded(1, "b1", "POST", FALSE, "msg")
    \/ EndStart(1, "b1")
    \/ SubscribeStart(1, "b1", "POST")
    \/ \E page \in PremiumPages : PremiumStart(1, "b1", page, "GET", "")
    \/ ChatReadUsage(1)
    \/ ChatReadSub(1)
    \/ ChatBody(1)
    \/ \E reply \in {AiReply, AiError} : ChatAIReturn(1, reply)
    \/ EndReadUsage(1)
    \/ EndCommit(1)
    \/ SubscribeReadSub(1)
    \/ SubscribeCommit(1)
    \/ PremiumCheck(1)
    \/ PremiumBody(1, AiReply)
    \/ ReadFails(1)
    \/ CommitFails(1)
    \/ Raised(1)
    \/ Respond(1)

FaultSpec == Init /\ [][FaultNext]_vars

\* One browser used by both accounts, one request after the other: logins
\* with or without a logout in between, subscribe requests, chat messages and
\* messages to the AI mock interview.  No free chat is ended, so that line
\* 1013 does not get to read the subscription.
SharedNext ==
    \/ \E a \in Accounts : Login(1, "b1", a)
    \/ Logout(1, "b1")
    \/ SubscribeStart(1, "b1", "POST")
    \/ ChatStartBounded(1, "b1", "POST", FALSE, "msg")
    \/ \E method \in {"GET", "POST"}, msg \in {"", "msg"} :
         PremiumStart(1, "b1", "mock_interview_ai", method, msg)
    \/ SubscribeReadSub(1)
    \/ SubscribeCommit(1)
    \/ ChatReadUsage(1)
    \/ ChatBody(1)
    \/ ChatAIReturn(1, AiReply)
    \/ PremiumCheck(1)
    \/ \E reply \in {AiReply, MockNotConfigured} : PremiumBody(1, reply)
    \/ Respond(1)

SharedSpec == Init /\ [][SharedNext]_vars

----------------------------------------------------------------------------
\* What the claims speak of.

\* The handler of request r has returned (its response is on the way).
Returned(r, kind) == req[r].kind = kind /\ req[r].pc = "respond"

\* Request r is a chat message request (POST /chatbot, no reset) past its
\* entitlement check: its AI call is in flight, or its handler has returned.
ChatMessageDecided(r) ==
    /\ req[r].kind = "chatbot" /\ req[r].method = "POST" /\ ~req[r].reset
    /\ req[r].pc \in {"ai_call", "respond"}

\* The AI collaborator is, or was, called for request r.
AICalled(r) ==
    /\ req[r].kind = "chatbot"
    /\ \/ req[r].pc = "ai_call"
       \/ req[r].pc = "respond" /\ req[r].outcome = "allowed" /\ groq_key

\* This step is a step of request r, a request of the given kind.
StepOf(r, kind) ==
    /\ req'[r] # req[r]
    /\ req[r].kind = kind \/ req'[r].kind = kind

----------------------------------------------------------------------------
\* C1 (latch coherence, I1): a chat message request that finds the account's
\* ai_usage row with ai_used = 1 is denied with the lock notice and is not
\* forwarded to the AI collaborator, whatever its session's ai_history holds.
C1_LatchCoherence ==
    \A r \in Reqs :
        (ChatMessageDecided(r) /\ req[r].usage = <<1>>)
            => (req[r].outcome = "denied" /\ ~AICalled(r))

\* C2: no AI call starts for an account after the commit that set its ai_used
\* to 1, in any interleaving of a chat message request with an end-chat request
\* (of an account without subscription, so that only the two requests decide).
C2_NoAICallAfterConsume ==
    [][\A r \in Reqs :
          (/\ req[r].kind = "chatbot" /\ req[r].pc = "body"
           /\ req'[r].pc = "ai_call"
           /\ ~user_is_subscribed(req[r].sess.user_id))
              => ai_usage[req[r].sess.user_id] # <<1>>]_vars

\* C3 (at-most-one consumption, I2): of the end-chat requests of one account
\* that ran together from a fresh account, exactly one made the 0-to-1
\* transition and every other one found the row already consumed; ai_used is 1
\* in exactly one row.
NewlyConsumed(r) ==
    Returned(r, "end_chatbot") /\ req[r].usage = None /\ req[r].outcome = "redirect_chatbot"

AlreadyConsumed(r) ==
    Returned(r, "end_chatbot") /\ req[r].usage = <<1>> /\ req[r].outcome = "redirect_chatbot"

C3_AtMostOneConsumption ==
    \A a \in Accounts :
        (/\ \A r \in Reqs : Returned(r, "end_chatbot") /\ req[r].sess.user_id = a
         /\ \E r \in Reqs : req[r].usage = None)
            => /\ Cardinality({r \in Reqs : NewlyConsumed(r)}) = 1
               /\ \A r \in Reqs : NewlyConsumed(r) \/ AlreadyConsumed(r)
               /\ ai_usage[a] = <<1>>

\* C4: no end-chat request ends in an error; each one of a logged-in account
\* returns the redirect to /chatbot with ai_used = 1.
C4_EndChatNoError ==
    \A r \in Reqs :
        (Returned(r, "end_chatbot") /\ req[r].sess.user_id # NoUser)
            => /\ req[r].outcome = "redirect_chatbot"
               /\ ai_usage[req[r].sess.user_id] = <<1>>

\* C5: a subscription does not reopen the free chat: a chat message request
\* that finds the account consumed and subscribed is still denied and is not
\* forwarded to the AI collaborator.
C5_SubscribeDoesNotReopen ==
    \A r \in Reqs :
        (/\ ChatMessageDecided(r)
         /\ req[r].usage = <<1>>
         /\ req[r].sub = TRUE)
            => (req[r].outcome = "denied" /\ ~AICalled(r))

\* C6 (the latch is monotonic): once an account has its row with ai_used = 1,
\* no step of any request changes the value or removes the row.
C6_LatchMonotonic ==
    [][\A a \in Accounts : ai_usage[a] = <<1>> => ai_usage'[a] = <<1>>]_vars

\* A logout has returned in a browser whose account is consumed.
C6_Witness ==
    \E r \in Reqs :
        /\ Returned(r, "logout")
        /\ cookie[req[r].b].user_id # NoUser
        /\ ai_usage[cookie[req[r].b].user_id] = <<1>>

\* C7 (the lock survives session resets): a chat message request of a consumed
\* account is denied also when its session holds no trace of the lock, as after
\* logout and login (no ai_used flag, no turns but those of this request).
C7_LockSurvivesSessionReset ==
    \A r \in Reqs :
        (/\ ChatMessageDecided(r)
         /\ req[r].usage = <<1>>
         /\ ~req[r].sess.ai_used
         /\ Len(req[r].sess.ai_history) <= 2)
            => req[r].outcome = "denied"

\* C8: when the response of a completed end-chat request (the redirect to
\* /chatbot) reaches the browser, the account's ai_used is 1 in its one row and
\* the session's ai_history is empty, whatever it held before.
C8_EndChatLocksAndClears ==
    [][\A r \in Reqs :
          (/\ Returned(r, "end_chatbot")
           /\ req[r].outcome = "redirect_chatbot"
           /\ req'[r].pc = "idle")
              => /\ ai_usage'[req[r].sess.user_id] = <<1>>
                 /\ cookie'[req[r].b].ai_history = <<>>
                 /\ cookie'[req[r].b].ai_used]_vars

\* An end-chat request has returned while the browser still shows a transcript.
C8_Witness ==
    \E r \in Reqs :
        /\ Returned(r, "end_chatbot")
        /\ req[r].outcome = "redirect_chatbot"
        /\ Len(cookie[req[r].b].ai_history) >= 2

\* The state an end-chat request leaves in its session.
Ended(sess) == sess.ai_history = <<>> /\ sess.ai_used

\* C9 (end chat is idempotent): an end-chat request on the state an earlier one
\* left (row with ai_used = 1, session ended) returns the redirect without
\* error and changes neither the table nor the session cookie.
C9_EndChatIdempotent ==
    [][\A r \in Reqs :
          /\ (/\ req[r].kind = "end_chatbot" /\ req[r].pc = "commit"
              /\ req'[r].pc = "respond"
              /\ req[r].usage = <<1>>)
                 => /\ req'[r].outcome = "redirect_chatbot"
                    /\ ai_usage' = ai_usage
                    /\ ai_usage'[req[r].sess.user_id] = <<1>>
          /\ (/\ Returned(r, "end_chatbot") /\ req'[r].pc = "idle"
              /\ req[r].usage = <<1>>
              /\ Ended(cookie[req[r].b]))
                 => cookie' = cookie]_vars

\* The second of two end-chat requests of a session has returned.
C9_Witness ==
    \E r \in Reqs :
        /\ Returned(r, "end_chatbot")
        /\ req[r].usage = <<1>>
        /\ req[r].outcome = "redirect_chatbot"
        /\ Ended(cookie[req[r].b])
        /\ cookie[req[r].b].user_id = req[r].sess.user_id

\* C10 (independent facts): no step of an end-chat request changes the
\* subscriptions table, and no step of a subscribe request changes ai_usage.
C10_IndependentFacts ==
    [][\A r \in Reqs :
          /\ StepOf(r, "end_chatbot") => subscriptions' = subscriptions
          /\ StepOf(r, "subscribe") => ai_usage' = ai_usage]_vars

\* A subscribe request has activated a consumed account, and an end-chat
\* request had consumed an account that was subscribed.
C10_Witness ==
    \E r \in Reqs, a \in Accounts :
        /\ Returned(r, "subscribe")
        /\ req[r].outcome = "redirect_dashboard"
        /\ req[r].sub = None
        /\ ai_usage[req[r].sess.user_id] = <<1>>
        /\ a # req[r].sess.user_id
        /\ subscriptions[a] = <<TRUE>>
        /\ ai_usage[a] = <<1>>

----------------------------------------------------------------------------
\* A subscribe request (POST /subscribe) of a logged-in account has returned.
Subscribed(r) ==
    /\ Returned(r, "subscribe") /\ req[r].method = "POST"
    /\ req[r].sess.user_id # NoUser

\* C11 (activation is idempotent): a subscribe request of an account that is
\* subscribed already (it found the row of an earlier subscribe request)
\* returns its redirect without error and leaves the account with exactly one
\* subscriptions row, active.
C11_ActivateIdempotent ==
    \A r \in Reqs :
        (Subscribed(r) /\ req[r].sub = <<TRUE>>)
            => /\ req[r].outcome = "redirect_dashboard"
               /\ subscriptions[req[r].sess.user_id] = <<TRUE>>

\* The second of two subscribe requests of an account has returned.
C11_Witness ==
    \E r \in Reqs :
        /\ Subscribed(r) /\ req[r].sub = <<TRUE>>
        /\ req[r].outcome = "redirect_dashboard"

\* C12 (activation is safe under concurrency): of the subscribe requests of an
\* account that ran together while it had no subscriptions row, none ends in
\* an error, and the account ends with exactly one row, active.
C12_ActivateConcurrent ==
    \A r \in Reqs :
        (Subscribed(r) /\ req[r].sub = None)
            => /\ req[r].outcome = "redirect_dashboard"
               /\ subscriptions[req[r].sess.user_id] = <<TRUE>>

----------------------------------------------------------------------------
\* C13 (the usage counter changes only through the end-chat action): a step
\* that creates or changes a row of ai_usage is the commit of an end-chat
\* request; no step of a chat message, a GET /chatbot, a reset, the home page,
\* login, logout, subscribe, the dashboard, a premium page or an admin page
\* does, so that an account that sends no end signal keeps no row.
C13_OnlyEndChatConsumes ==
    [][ai_usage' # ai_usage
          => \E r \in Reqs :
                /\ req[r].kind = "end_chatbot" /\ req[r].pc = "commit"
                /\ req'[r].pc = "respond"]_vars

\* An account that has chatted, subscribed, added a mock interview and opened
\* its dashboard, and has sent no end signal.
C13_Witness ==
    \E r \in Reqs :
        /\ Returned(r, "dashboard")
        /\ req[r].outcome = "page"
        /\ Len(req[r].sess.ai_history) = 2
        /\ Len(req[r].sess.mock_ai_history) = 2
        /\ mock_interviews # <<>>
        /\ user_profiles[req[r].sess.user_id] # <<>>
        /\ ai_usage[req[r].sess.user_id] = <<>>

----------------------------------------------------------------------------
\* A recorded response to a chat message request.
IsChatMessage(e) == e.kind = "chatbot" /\ e.message

\* The recorded session begins with the login of a fresh account, three chat
\* message requests and an end-chat request.
ThreeChatsAndEnd ==
    /\ Len(served) >= 5
    /\ served[1].kind = "login"
    /\ \A i \in 2..4 : IsChatMessage(served[i])
    /\ served[5].kind = "end_chatbot"

\* C14 (scenario): for a fresh account without subscription, three chat
\* message requests are each allowed, the end-chat request that follows locks
\* the account, and the chat message request after it is denied and leaves in
\* the session's ai_history exactly one turn, the lock notice.
C14_ThreeChatsEndDenied ==
    ThreeChatsAndEnd
        => /\ \A i \in 2..4 : served[i].outcome = "allowed"
           /\ served[5].outcome = "redirect_chatbot"
           /\ served[5].ai_usage = <<1>>
           /\ (Len(served) >= 6 /\ IsChatMessage(served[6]))
                 => /\ served[6].outcome = "denied"
                    /\ served[6].ai_history = <<LockNotice>>
                    /\ (Len(served) = 6 => cookie["b1"].ai_history = <<LockNotice>>)

\* The scenario has run to the response to its last chat message request.
C14_Witness ==
    /\ ThreeChatsAndEnd
    /\ Len(served) = 6 /\ IsChatMessage(served[6])
    /\ Len(served[4].ai_history) = 6

\* The recorded response i is to a chat message request whose AI call raised
\* or whose AI collaborator was not configured.
AIFailed(i) ==
    /\ IsChatMessage(served[i])
    /\ served[i].ai \in {"raised", "not_configured"}

\* C15 (the AI collaborator fails): the chat message request whose AI call
\* failed or was not configured completes normally, its session's ai_history
\* is that of the response before it followed by the user's turn and one
\* error reply, the account's ai_usage is as before (no row), and the chat
\* message request after it is allowed.
C15_AIFailureKeepsQuota ==
    \A i \in 2..Len(served) :
        AIFailed(i)
            => /\ served[i].outcome = "allowed"
               /\ \E err \in {AiError, NotConfigured} :
                     served[i].ai_history = served[i-1].ai_history \o <<UserMsg, err>>
               /\ served[i].ai_usage = served[i-1].ai_usage
               /\ served[i].ai_usage = <<>>
               /\ (i < Len(served) /\ IsChatMessage(served[i+1]))
                     => served[i+1].outcome = "allowed"

\* A chat message request has been answered after one whose AI call raised
\* or whose AI collaborator was not configured.
C15_Witness ==
    \E i \in 2..Len(served) :
        /\ AIFailed(i)
        /\ i < Len(served) /\ IsChatMessage(served[i+1])
        /\ Len(served[i+1].ai_history) = 4

----------------------------------------------------------------------------
\* The active flag of the account: no account, or no row, is not active.
IsActive(a) == a # NoUser /\ subscriptions[a] # <<>> /\ Head(subscriptions[a]) = TRUE

\* This step is the premium check of request r.
PremiumCheckStep(r) ==
    /\ req[r].kind \in PremiumPages \cup {"dashboard"}
    /\ req[r].pc = "check" /\ req'[r].pc # "check"

IsPremium(e) == e.kind \in PremiumPages /\ e.user_id # NoUser

\* A recorded response to a subscribe request (POST /subscribe) of account a.
IsSubscribe(e, a) == e.kind = "subscribe" /\ e.method = "POST" /\ e.user_id = a

\* C17 (scenario): a premium page request of an account is denied with
\* needs-subscription as long as no subscribe request of the account came
\* before it, and every premium page request after one is allowed.
C17_PremiumAfterSubscribe ==
    \A j \in 1..Len(served) :
        IsPremium(served[j])
            => served[j].outcome =
                 IF \E i \in 1..(j-1) : IsSubscribe(served[i], served[j].user_id)
                 THEN "content" ELSE "needs_subscription"

\* A premium page was denied, the account subscribed, and two premium pages
\* were requested after that.
C17_Witness ==
    \E i \in 2..Len(served) :
        /\ IsPremium(served[i-1]) /\ served[i-1].outcome = "needs_subscription"
        /\ IsSubscribe(served[i], served[i-1].user_id)
        /\ i + 2 <= Len(served)
        /\ IsPremium(served[i+1]) /\ IsPremium(served[i+2])
        /\ served[i+1].kind # served[i+2].kind

\* C18 (admin panel entry needs both checks): a request to /admin or
\* /admin/<entity>/add is served only to a session that carries the admin
\* identity and whose account has an active subscription.
C18_AdminNeedsBoth ==
    \A r \in Reqs :
        (/\ req[r].kind \in {"admin_panel", "admin_add"} /\ req[r].pc = "respond"
         /\ req[r].outcome # "redirect_admin_login")
            => /\ is_admin(req[r].sess)
               /\ IsActive(req[r].sess.user_id)

\* C19 (the reset view): the reset (GET /chatbot?reset=1) empties the
\* session's ai_history and changes nothing else: no other key of the
\* session, no row of ai_usage, of subscriptions or of any other table, for a
\* locked and for an open account; the browser's cookie differs from the one
\* it sent in ai_history only.
C19_ResetClearsOnlyHistory ==
    [][\A r \in Reqs :
          (req[r].kind = "chatbot" /\ req[r].reset)
             => /\ UNCHANGED <<ai_usage, subscriptions, gated>>
                /\ (req[r].pc = "body" /\ req'[r].pc = "respond")
                      => /\ req'[r].sess = [req[r].sess EXCEPT !.ai_history = <<>>]
                         /\ req'[r].outcome = "redirect_chatbot"
                /\ (req[r].pc = "respond" /\ req'[r].pc = "idle")
                      => cookie'[req[r].b] =
                            [cookie[req[r].b] EXCEPT !.ai_history = <<>>]]_vars

\* A reset has returned for a locked account with the lock notice on display.
C19_Witness ==
    \E r \in Reqs :
        /\ Returned(r, "chatbot") /\ req[r].reset
        /\ cookie[req[r].b].ai_history # <<>>
        /\ cookie[req[r].b].ai_used
        /\ ai_usage[req[r].sess.user_id] = <<1>>
        /\ ~user_is_subscribed(req[r].sess.user_id)

\* The endpoints that ask for an account.
GatedKinds == {"chatbot", "end_chatbot", "subscribe", "dashboard"} \cup PremiumPages

\* C20 (no account, no entry): a request to a gated endpoint whose session
\* has no user_id is answered with the redirect to /login and leaves the
\* session as it was.
C20_Unauthenticated ==
    \A r \in Reqs :
        (/\ req[r].kind \in GatedKinds /\ req[r].pc = "respond"
         /\ req[r].sess.user_id = NoUser)
            => /\ req[r].outcome = "redirect_login"
               /\ ~req[r].modified

----------------------------------------------------------------------------
\* C21 (store failures fail closed): when the read of the ai_usage row or of
\* the subscriptions row raises in a chat message request or in a premium
\* request, the request ends in an error: it is not decided as 'not consumed'
\* or 'not subscribed', no AI call starts, nothing is appended to the
\* session, no premium content is delivered, and no table changes.
C21_ReadFailureFailsClosed ==
    [][\A r \in Reqs :
          (/\ req[r].pc = "raised"
           /\ req[r].kind \in {"chatbot"} \cup PremiumPages
           /\ req'[r] # req[r])
              => /\ req'[r].pc = "respond"
                 /\ req'[r].outcome = "error"
                 /\ req'[r].sess = cookie[req[r].b]
                 /\ ~req'[r].modified
                 /\ UNCHANGED <<ai_usage, subscriptions, gated, cookie>>]_vars

\* A chat message request of a session with a transcript has ended in the
\* error of a failed read.
C21_Witness ==
    \E r \in Reqs :
        /\ Returned(r, "chatbot") /\ req[r].outcome = "error"
        /\ req[r].usage = <<1>>
        /\ Len(req[r].sess.ai_history) >= 2

----------------------------------------------------------------------------
\* C28 (a failed end-chat changes nothing): when the commit of an end-chat
\* request raises, the request ends in an error, ai_usage keeps its rows, and
\* the session is answered as it was sent: ai_history is not cleared and the
\* ai_used flag is not set, in the request and in the browser's cookie.
C28_FailedEndChangesNothing ==
    [][\A r \in Reqs :
          (/\ req[r].kind = "end_chatbot"
           /\ \/ req[r].pc = "raised"
              \/ req[r].pc = "respond" /\ req[r].ai = "none" /\ req[r].outcome = "error"
           /\ req'[r] # req[r])
              => /\ UNCHANGED <<ai_usage, subscriptions, gated, cookie>>
                 /\ req[r].pc = "raised"
                       => /\ req'[r].pc = "respond"
                          /\ req'[r].outcome = "error"
                          /\ req'[r].sess = cookie[req[r].b]
                          /\ ~req'[r].modified]_vars

\* The end-chat request of an open account with a transcript has ended in
\* the error of its failed commit.
C28_Witness ==
    \E r \in Reqs :
        /\ Returned(r, "end_chatbot") /\ req[r].outcome = "error"
        /\ req[r].usage = None
        /\ Len(cookie[req[r].b].ai_history) >= 2
        /\ ~cookie[req[r].b].ai_used

----------------------------------------------------------------------------
\* The account is locked by its rows: consumed, and no active subscription.
LockedByRows(a) == ai_usage[a] = <<1>> /\ ~IsActive(a)

\* C22 (the durable latch is the single source of truth): the decision of a
\* chat message request, and whether the AI collaborator is called for it, is
\* a function of the account's ai_usage and subscriptions rows (and of the
\* AI collaborator being configured), the same in every reachable session:
\* whatever ai_history, the session's ai_used flag and first_time_login hold.
C22_LatchDecides ==
    \A r \in Reqs :
        (/\ ChatMessageDecided(r) /\ req[r].msg # ""
         /\ req[r].sess.user_id # NoUser)
            => /\ req[r].pc = "respond"
                     => req[r].outcome = IF LockedByRows(req[r].sess.user_id)
                                         THEN "denied" ELSE "allowed"
               /\ AICalled(r) = (~LockedByRows(req[r].sess.user_id) /\ groq_key)

\* A chat message is allowed in a session that carries the ai_used flag and
\* the lock notice of another account.
C22_Witness ==
    \E r \in Reqs :
        /\ ChatMessageDecided(r) /\ req[r].pc = "respond"
        /\ req[r].outcome = "allowed"
        /\ req[r].sess.ai_used
        /\ req[r].usage = None

----------------------------------------------------------------------------
\* The recorded response i is to a chat message request of the account of
\* the response before it, in the session that response left.
NextChatMessage(i) ==
    /\ IsChatMessage(served[i])
    /\ served[i].user_id # NoUser
    /\ served[i-1].user_id = served[i].user_id

\* C23 (a denied request appends one lock notice): the chat message request
\* of a locked account is denied, leaves in ai_history the turns that were
\* there followed by exactly one lock notice, without the user's text, and
\* leaves ai_used at 1 and the subscription as it was; so k denied requests
\* in a row add k notices.
C23_DeniedAppendsOneNotice ==
    \A i \in 2..Len(served) :
        (NextChatMessage(i) /\ served[i-1].ai_usage = <<1>> /\ ~served[i-1].active)
            => /\ served[i].outcome = "denied"
               /\ served[i].ai_history = Append(served[i-1].ai_history, LockNotice)
               /\ served[i].ai_usage = <<1>>
               /\ served[i].active = served[i-1].active

\* Three chat message requests in a row were denied, and the session holds
\* three lock notices.
C23_Witness ==
    \E i \in 4..Len(served) :
        /\ \A j \in (i-2)..i : NextChatMessage(j) /\ served[j].outcome = "denied"
        /\ served[i].ai_history = <<LockNotice, LockNotice, LockNotice>>

\* The turns alternate user, assistant, and end with an assistant's turn.
Alternates(history) ==
    /\ Len(history) % 2 = 0
    /\ \A k \in 1..Len(history) :
          history[k].role = IF k % 2 = 1 THEN "user" ELSE "assistant"

\* C24 (two turns per allowed message, in order): in the Open state each chat
\* message request leaves in ai_history the turns that were there, followed
\* by the user's turn and one assistant turn (the reply or an error reply);
\* the transcript of an open account alternates user, assistant; and the
\* turns sent to the AI collaborator are the earlier turns and the new
\* user turn.
C24_TwoTurnsInOrder ==
    /\ \A i \in 2..Len(served) :
          (NextChatMessage(i) /\ served[i-1].ai_usage = <<>>)
              => \E reply \in {AiReply, AiError, NotConfigured} :
                    served[i].ai_history = served[i-1].ai_history \o <<UserMsg, reply>>
    /\ \A i \in 1..Len(served) :
          (served[i].user_id # NoUser /\ served[i].ai_usage = <<>>)
              => Alternates(served[i].ai_history)
    /\ \A r \in Reqs :
          (req[r].kind = "chatbot" /\ req[r].pc = "ai_call")
              => req[r].sess.ai_history = Append(cookie[req[r].b].ai_history, UserMsg)

\* Three chat messages of an open account were answered: six turns.
C24_Witness ==
    \E i \in 4..Len(served) :
        /\ \A j \in (i-2)..i : NextChatMessage(j) /\ served[j].outcome = "allowed"
        /\ Len(served[i].ai_history) = 6
        /\ served[i].ai_usage = <<>>

----------------------------------------------------------------------------
\* C25 (no deactivation): once an account has its subscriptions row with
\* active = True, no step of any request (subscribe again, end chat, logout,
\* login, a chat message, the dashboard, a premium page, an admin action)
\* clears the flag or removes the row.
C25_NoDeactivation ==
    [][\A a \in Accounts :
          subscriptions[a] = <<TRUE>> => subscriptions'[a] = <<TRUE>>]_vars

\* A subscribed and consumed account has subscribed again, after an admin
\* added a row to the catalog.
C25_Witness ==
    \E r \in Reqs :
        /\ Subscribed(r) /\ req[r].sub = <<TRUE>>
        /\ ai_usage[req[r].sess.user_id] = <<1>>
        /\ catalog # <<>>

----------------------------------------------------------------------------
\* C26 (the two lock triggers agree): in every reachable state and for every
\* logged-in account, the home page's test (ai_used >= 1, line 540) is true
\* exactly when the chatbot page's test (line 1013) finds the account locked.
C26_TriggersAgree ==
    \A b \in Browsers :
        LET a == cookie[b].user_id IN
        a # NoUser =>
            (HomeUsed(First(ai_usage, a))
                <=> Locked(First(ai_usage, a), user_is_subscribed(a)))

----------------------------------------------------------------------------
\* The transcript holds a user turn: a message that was let through.
HoldsTranscript(history) == \E i \in DOMAIN history : history[i] = UserMsg

\* C27 (an in-flight message does not restore the cleared buffer): with no
\* request in flight, a session of a consumed account without subscription
\* holds no turn of the transcript from before the lock, whatever the order
\* in which a chat message request and an end-chat request of the session
\* finished.
C27_ClearedBufferStaysCleared ==
    \A b \in Browsers :
        LET a == cookie[b].user_id IN
        (/\ \A r \in Reqs : req[r].pc = "idle"
         /\ a # NoUser
         /\ LockedByRows(a))
            => ~HoldsTranscript(cookie[b].ai_history)

----------------------------------------------------------------------------
\* C29 (gated data needs a subscription): an account without an active
\* subscription has no mock_interviews row and the skills of its profile are
\* as the profile was created; its requests to /mock-interviews/ai do not get
\* past the check to the AI collaborator, and its session's mock_ai_history
\* is empty.  (No step deactivates a subscription, so this is the state left
\* by every sequence of requests of such an account.)
C29_GatedDataNeedsSubscription ==
    \A a \in Accounts :
        ~IsActive(a) =>
            /\ \A i \in DOMAIN mock_interviews : mock_interviews[i] # a
            /\ user_profiles[a] # <<>> =>
                   Head(user_profiles[a]).skills_text = NewProfile.skills_text
            /\ \A r \in Reqs :
                   (req[r].kind = "mock_interview_ai" /\ req[r].sess.user_id = a)
                       => (req[r].pc # "body" /\ req[r].sess.mock_ai_history = <<>>)
            /\ \A b \in Browsers :
                   cookie[b].user_id = a => cookie[b].mock_ai_history = <<>>

\* An account without subscription has posted a skill to /dashboard with tab
\* skills_add, and got the redirect.
C29_Witness ==
    \E r \in Reqs :
        /\ Returned(r, "dashboard") /\ req[r].outcome = "redirect_skills"
        /\ req[r].method = "POST" /\ req[r].tab = "skills_add" /\ req[r].msg = "msg"
        /\ ~IsActive(req[r].sess.user_id)
        /\ user_profiles[req[r].sess.user_id] = <<NewProfile>>

----------------------------------------------------------------------------
\* C30 (conversation buffers do not leak between accounts): when a login has
\* succeeded in a browser session whose previous account was another one (or
\* none), the session it returns holds an empty ai_history and an empty
\* mock_ai_history, also when the previous account did not log out first.
C30_NoLeakAtLogin ==
    \A r \in Reqs :
        (/\ Returned(r, "login") /\ req[r].outcome = "redirect_dashboard"
         /\ cookie[req[r].b].user_id # req[r].sess.user_id)
            => /\ req[r].sess.ai_history = <<>>
               /\ req[r].sess.mock_ai_history = <<>>

=============================================================================
